---- MODULE Spec2Model ----
(***************************************************************************)
(* Model of the moderation bot in src/discord-bot/botbot.py.               *)
(*                                                                         *)
(* The bot runs on one asyncio event loop: every event (a message, a slash *)
(* command) is dispatched as its own task, a task runs without             *)
(* interruption between two awaits, and at an await of a platform call any *)
(* other task may run.  One action of the model is one such uninterrupted  *)
(* stretch of one task: it starts when the awaited call of the previous    *)
(* stretch completes (successfully or with an exception) and runs up to    *)
(* the next await.                                                         *)
(*                                                                         *)
(* A text is a sequence of one-character strings.  Scores are in           *)
(* hundredths (0.95 is 95).  Times are in seconds.                         *)
(***************************************************************************)
EXTENDS Integers, Sequences, FiniteSets, TLC

\* ---------------------------------------------------------------- config
MAX_WARNINGS == 5
MUTE_DURATION == 300
SPAM_LIMIT == 5
SPAM_WINDOW == 7

\* ---------------------------------------------------------------- bounds
\* number of event-handler tasks of one run
MaxTasks == 2
\* the clock advances in steps of TickStep seconds up to MaxTime
TickStep == 150
MaxTime == 450
\* number of categories in a remote moderation response
MaxCategories == 2
\* the run of messages of the spam window: the number of messages, and the
\* time in seconds up to which the clock advances one second at a time
SpamTasks == 6
SpamMaxTime == 8
\* length of the message contents that are enumerated in full
MaxTextLen == 5

Users == {1, 2}

\* ------------------------------------------------------------ characters
LowerLetters ==
  <<"a","b","c","d","e","f","g","h","i","j","k","l","m",
    "n","o","p","q","r","s","t","u","v","w","x","y","z">>
UpperLetters ==
  <<"A","B","C","D","E","F","G","H","I","J","K","L","M",
    "N","O","P","Q","R","S","T","U","V","W","X","Y","Z">>
Digits == {"0","1","2","3","4","5","6","7","8","9"}

Range(f) == {f[i] : i \in DOMAIN f}

isupper(c) == c \in Range(UpperLetters)

\* str.lower on one character
lower(c) ==
  IF isupper(c)
  THEN LowerLetters[CHOOSE i \in DOMAIN UpperLetters : UpperLetters[i] = c]
  ELSE c

\* \w of the re module on a str pattern (Unicode): the letters, accented
\* ones too, the digits and the underscore
IsWord(c) ==
  c \in Range(LowerLetters) \cup Range(UpperLetters) \cup Digits \cup {"_", "é"}

\* ------------------------------------------------------- text normalizer
\* unidecode() on the characters of the model: ASCII is left alone, an
\* accented letter becomes its base letter
unidecode(c) == IF c = "é" THEN "e" ELSE c

RECURSIVE RunLength(_, _)
\* length of the run of s[i] starting at position i
RunLength(s, i) ==
  IF i < Len(s) /\ s[i + 1] = s[i] THEN 1 + RunLength(s, i + 1) ELSE 1

RECURSIVE Collapse(_)
\* re.sub(r'(.)\1{2,}', r'\1', s): a run of three or more becomes one
Collapse(s) ==
  IF s = <<>> THEN <<>>
  ELSE LET n == RunLength(s, 1)
       IN  IF n >= 3
           THEN <<s[1]>> \o Collapse(SubSeq(s, n + 1, Len(s)))
           ELSE <<s[1]>> \o Collapse(SubSeq(s, 2, Len(s)))

IsStripped(c) == ~IsWord(c) \/ c = "_"

normalize_text(s) ==
  LET t == [i \in DOMAIN s |-> unidecode(lower(s[i]))]
      u == SelectSeq(t, LAMBDA c : ~IsStripped(c))
  IN  Collapse(u)

\* ----------------------------------------------------- pattern matching
\* A structural pattern c1+ \W* c2+ \W* ... cn+ is the sequence of its
\* character classes c1..cn.
SLUR_PATTERNS ==
  << << {"n"}, {"i","1","!"}, {"g","q","9"}, {"e","3","a"}, {"r"} >>,
     << {"f"}, {"a","@","4"}, {"g","q","9"}, {"o","0"}, {"t"} >> >>

RECURSIVE MatchClass(_, _, _, _), MatchGap(_, _, _, _)
\* s[i] is in class k, and the rest of the pattern matches after it
MatchClass(p, s, i, k) ==
  /\ i <= Len(s)
  /\ lower(s[i]) \in p[k]
  /\ \/ k = Len(p)
     \/ MatchClass(p, s, i + 1, k)
     \/ MatchGap(p, s, i + 1, k + 1)
\* \W* and then class k, from position i
MatchGap(p, s, i, k) ==
  \/ MatchClass(p, s, i, k)
  \/ (i <= Len(s) /\ ~IsWord(s[i]) /\ MatchGap(p, s, i + 1, k))

\* re.search(p, s, flags=re.IGNORECASE)
re_search(p, s) == \E i \in 1..Len(s) : MatchClass(p, s, i, 1)

\* re.search(r'[!?.]{4,}', s)
PunctuationBurst(s) ==
  \E i \in 1..Len(s) :
    /\ i + 3 <= Len(s)
    /\ \A j \in i..(i + 3) : s[j] \in {"!", "?", "."}

\* ------------------------------------------------------- SequenceMatcher
RECURSIVE CommonLen(_, _, _, _, _, _)
\* length of the common run of a from i and b from j, within ahi and bhi
CommonLen(a, i, ahi, b, j, bhi) ==
  IF i <= ahi /\ j <= bhi /\ a[i] = b[j]
  THEN 1 + CommonLen(a, i + 1, ahi, b, j + 1, bhi)
  ELSE 0

Max(S) == CHOOSE x \in S : \A y \in S : y <= x
Min(S) == CHOOSE x \in S : \A y \in S : x <= y

\* find_longest_match: the longest block, the earliest in a, then in b
LongestMatch(a, alo, ahi, b, blo, bhi) ==
  LET k == Max({0} \cup {CommonLen(a, i, ahi, b, j, bhi) :
                          i \in alo..ahi, j \in blo..bhi})
  IN  IF k = 0 THEN <<alo, blo, 0>>
      ELSE LET i == Min({x \in alo..ahi : \E y \in blo..bhi :
                             CommonLen(a, x, ahi, b, y, bhi) = k})
               j == Min({y \in blo..bhi :
                             CommonLen(a, i, ahi, b, y, bhi) = k})
           IN  <<i, j, k>>

RECURSIVE MatchedChars(_, _, _, _, _, _)
\* get_matching_blocks: the longest block, then the same to its left and
\* to its right; the sum of the block sizes
MatchedChars(a, alo, ahi, b, blo, bhi) ==
  IF alo > ahi \/ blo > bhi THEN 0
  ELSE LET m == LongestMatch(a, alo, ahi, b, blo, bhi)
       IN  IF m[3] = 0 THEN 0
           ELSE m[3]
                + MatchedChars(a, alo, m[1] - 1, b, blo, m[2] - 1)
                + MatchedChars(a, m[1] + m[3], ahi, b, m[2] + m[3], bhi)

\* SequenceMatcher(None, a, b).ratio() as the fraction <<2*M, T>>
Ratio(a, b) ==
  IF Len(a) + Len(b) = 0 THEN <<1, 1>>
  ELSE <<2 * MatchedChars(a, 1, Len(a), b, 1, Len(b)), Len(a) + Len(b)>>

\* fractions with positive denominators
FracGT(x, y) == x[1] * y[2] > y[1] * x[2]

SHAPES == << <<"n","g","e","r">>, <<"f","g","o","t">>, <<"k","k">> >>

RECURSIVE BestShape(_, _, _)
\* the loop of shape_match: best is replaced when a score is greater
BestShape(s_norm, k, best) ==
  IF k > Len(SHAPES) THEN best
  ELSE LET score == Ratio(s_norm, SHAPES[k])
       IN  BestShape(s_norm, k + 1, IF FracGT(score, best) THEN score ELSE best)

shape_match(s) == BestShape(normalize_text(s), 1, <<0, 1>>)

\* ------------------------------------------------------------- scorers
caps_count(text) == Cardinality({i \in DOMAIN text : isupper(text[i])})

\* the scorer with the caps signal tested before the punctuation signal
heuristic_toxic_score_caps_first(text) ==
  IF \E k \in DOMAIN SLUR_PATTERNS : re_search(SLUR_PATTERNS[k], text)
  THEN 95
  ELSE IF 2 * caps_count(text) > Len(text) + 1 THEN 40
  ELSE IF PunctuationBurst(text) THEN 45
  ELSE IF FracGT(shape_match(text), <<6, 10>>) THEN 80
  ELSE 0

heuristic_toxic_score(text) ==
  IF \E k \in DOMAIN SLUR_PATTERNS : re_search(SLUR_PATTERNS[k], text)
  THEN 95
  ELSE IF PunctuationBurst(text) THEN 45
  \* caps_ratio = caps / (len + 1) > 0.5
  ELSE IF 2 * caps_count(text) > Len(text) + 1 THEN 40
  \* shape_match(text) > 0.6
  ELSE IF FracGT(shape_match(text), <<6, 10>>) THEN 80
  ELSE 0

\* A response of the remote moderation endpoint: ok is FALSE when the call
\* or the reading of its result raises; else total is the number of
\* categories of the response and flagged the number of flagged ones.
RemoteResults ==
  {[ok |-> FALSE, total |-> 0, flagged |-> 0]} \cup
  {[ok |-> TRUE, total |-> n, flagged |-> f] :
     n \in 0..MaxCategories, f \in 0..MaxCategories}
ValidRemote(r) == r.flagged <= r.total

\* min(1.0, flagged_count / total + 0.2), with total = len(categories) or 1
remote_score(r) ==
  LET total == IF r.total = 0 THEN 1 ELSE r.total
      v == (100 * r.flagged) \div total + 20
  IN  IF v > 100 THEN 100 ELSE v

\* the remote scorer with an except branch that returns 0.0
ai_moderation_score_no_fallback(openai_on, text, r) ==
  IF openai_on
  THEN IF r.ok THEN remote_score(r) ELSE 0
  ELSE heuristic_toxic_score(text)

ai_moderation_score(openai_on, text, r) ==
  IF openai_on
  THEN IF r.ok THEN remote_score(r) ELSE heuristic_toxic_score(text)
  ELSE heuristic_toxic_score(text)

\* ---------------------------------------------------------------- inputs
\* message contents: passes; punctuation burst; shape match; structural
\* pattern in the raw text; structural pattern in the normalized text only
Texts ==
  { <<"o","k">>,
    <<"w","o","w","!","!","!","!">>,
    <<"k","k">>,
    <<"n","!","9","3","r">>,
    <<"n","_","1","q","3","r">> }

\* ----------------------------------------------------------------- state
VARIABLES
  use_openai,          \* whether OPENAI_API_KEY is set
  user_warnings,       \* uid -> warning count (uids not in the dict are 0)
  warnings_file,       \* what warnings.json holds
  user_message_times,  \* uid -> timestamps of the recent messages
  muted_role_exists,   \* the guild has a role named "Muted"
  muted,               \* the members that have the role
  moderation_log,      \* the records of moderation.log, <<task, kind>>
  mod_log_channel,     \* the records sent to the mod-logs channel
  now,                 \* time.time()
  tasks                \* the event-handler tasks

vars ==
  <<use_openai, user_warnings, warnings_file, user_message_times,
    muted_role_exists, muted, moderation_log, mod_log_channel, now, tasks>>

\* A task that has not been dispatched yet.  kind is the handler, uid the
\* member it is about (the author of the message, the user argument of a
\* command), pc the await the task is suspended at, reason the decision of
\* on_message, wake the time its asyncio.sleep ends, escalated that the task
\* has reset the count and called mute_member, role_ok that the role call
\* of the handler (the add_roles of mute_member, the remove_roles of
\* slash_unmute) returned without an exception, text the content of the
\* message of on_message, remote what the remote endpoint answered when
\* on_message called it, score the score of the message (NoScore as long as
\* ai_moderation_score has not returned).
NoScore == -1
NoCall == [ok |-> FALSE, total |-> 0, flagged |-> 0]

Idle ==
  [kind |-> "none", uid |-> 0, pc |-> "idle", reason |-> "none", wake |-> 0,
   escalated |-> FALSE, role_ok |-> FALSE, text |-> <<>>, remote |-> NoCall,
   score |-> NoScore]

\* what warnings.json can hold at startup: nothing, or the count of a
\* member who is one warning away from a mute
StoredWarnings ==
  {[u \in Users |-> IF u = 1 THEN c ELSE 0] : c \in {0, MAX_WARNINGS - 1}}

\* The bot after load_warnings() at startup, without OPENAI_API_KEY, in a
\* guild that has no "Muted" role yet.
Init ==
  /\ use_openai = FALSE
  /\ warnings_file \in StoredWarnings
  /\ user_warnings = warnings_file
  /\ user_message_times = [u \in Users |-> <<>>]
  /\ muted_role_exists = FALSE
  /\ muted = {}
  /\ moderation_log = {}
  /\ mod_log_channel = {}
  /\ now = 0
  /\ tasks = [t \in 1..MaxTasks |-> Idle]

\* ------------------------------------------------------------- helpers
\* the outcomes of a write of warnings.json
SaveOutcomes == {TRUE}

\* tasks are dispatched in the order of their numbers
CanStart(t) ==
  /\ tasks[t].pc = "idle"
  /\ IF t = 1 THEN TRUE ELSE tasks[t - 1].pc # "idle"

\* save_warnings(): the dump of dict uw, or nothing when the write raises
save_warnings(uw, ok) == IF ok THEN uw ELSE warnings_file

\* append_log(text)
append_log(log, t, kind) == log \cup {<<t, kind>>}

\* send_mod_log(guild, content): an exception of channel.send is swallowed.
\* A guild without a mod-logs channel behaves as one whose send fails.
send_mod_log(ch, t, kind, ok) == IF ok THEN ch \cup {<<t, kind>>} ELSE ch

\* the first await of mute_member: create the role when it is missing
MuteEntry == IF muted_role_exists THEN "mm_add_roles" ELSE "mm_create_role"

\* where the caller of mute_member goes on when mute_member returns
AfterMute(task) ==
  IF task.kind = "slash_mute" THEN "respond"
  ELSE IF task.reason = "spam" THEN "spam_mod_log"
  ELSE "done"

\* where on_message goes on when apply_warning returns
AfterWarning(task) == IF task.reason = "spam" THEN "spam_mod_log" ELSE "done"

\* the window with the comparison of line 248 made inclusive
Window_inclusive(times, t) ==
  Append(SelectSeq(times, LAMBDA x : t - x <= SPAM_WINDOW), t)

\* the window without the pruning of line 248
Window_unpruned(times, t) == Append(times, t)

\* the spam window after a message of its owner at time t
Window(times, t) ==
  Append(SelectSeq(times, LAMBDA x : t - x < SPAM_WINDOW), t)

\* the responses the remote endpoint can give to one call; it is not called
\* when OPENAI_API_KEY is not set
RemoteInputs ==
  IF use_openai THEN {r \in RemoteResults : ValidRemote(r)}
  ELSE {NoCall}

\* the decision with the pattern scan ahead of the score thresholds
Decision_pattern_first(text, r) ==
  LET score == ai_moderation_score(use_openai, text, r)
  IN  IF \E k \in DOMAIN SLUR_PATTERNS :
                \/ re_search(SLUR_PATTERNS[k], text)
                \/ re_search(SLUR_PATTERNS[k], normalize_text(text))
      THEN "pattern"
      ELSE IF score >= 70 THEN "removed"
      ELSE IF score >= 40 THEN "flagged"
      ELSE "pass"

\* the decision with a pattern scan of the raw text alone
Decision_raw_only(text, r) ==
  LET score == ai_moderation_score(use_openai, text, r)
  IN  IF score >= 70 THEN "removed"
      ELSE IF score >= 40 THEN "flagged"
      ELSE IF \E k \in DOMAIN SLUR_PATTERNS : re_search(SLUR_PATTERNS[k], text)
      THEN "pattern"
      ELSE "pass"

\* the decision of on_message for a message that is not spam
Decision(text, r) ==
  LET score == ai_moderation_score(use_openai, text, r)
  IN  IF score >= 70 THEN "removed"
      ELSE IF score >= 40 THEN "flagged"
      ELSE IF \E k \in DOMAIN SLUR_PATTERNS :
                \/ re_search(SLUR_PATTERNS[k], text)
                \/ re_search(SLUR_PATTERNS[k], normalize_text(text))
      THEN "pattern"
      ELSE "pass"

\* ------------------------------------------------------------ on_message
\* on_message up to its first await: the bot check, the spam window, the
\* score and the decision; then message.delete() is awaited
on_message(t, author, bot, text, r) ==
  /\ CanStart(t)
  /\ UNCHANGED <<use_openai, user_warnings, warnings_file, muted_role_exists,
                 muted, moderation_log, mod_log_channel, now>>
  /\ IF bot
     THEN /\ tasks' = [tasks EXCEPT ![t] =
                 [Idle EXCEPT !.kind = "on_message", !.uid = author,
                              !.pc = "done", !.reason = "bot"]]
          /\ UNCHANGED user_message_times
     ELSE LET times == Window(user_message_times[author], now)
              spam == Len(times) >= SPAM_LIMIT
              reason == IF spam THEN "spam" ELSE Decision(text, r)
          IN  /\ user_message_times' =
                   [user_message_times EXCEPT ![author] = times]
              /\ tasks' = [tasks EXCEPT ![t] =
                   [Idle EXCEPT !.kind = "on_message", !.uid = author,
                                !.reason = reason, !.text = text,
                                !.remote = IF spam THEN NoCall ELSE r,
                                !.score =
                                  IF spam THEN NoScore
                                  ELSE ai_moderation_score(use_openai, text, r),
                                !.pc = IF reason = "pass" THEN "done"
                                       ELSE "delete"]]

\* ---------------------------------------------------------- apply_warning
\* message.delete() has returned or raised (the exception is swallowed);
\* apply_warning increments the count, saves, and awaits channel.send
apply_warning(t, saved) ==
  /\ tasks[t].pc = "delete"
  /\ LET uid == tasks[t].uid
         uw == [user_warnings EXCEPT ![uid] = @ + 1]
     IN  /\ user_warnings' = uw
         /\ warnings_file' = save_warnings(uw, saved)
  /\ tasks' = [tasks EXCEPT ![t].pc = "aw_send"]
  /\ UNCHANGED <<use_openai, user_message_times, muted_role_exists, muted,
                 moderation_log, mod_log_channel, now>>

\* channel.send of the warning has returned, and send_mod_log is awaited;
\* or it has raised, and the exception ends the task
apply_warning_sent(t, ok) ==
  /\ tasks[t].pc = "aw_send"
  /\ tasks' = [tasks EXCEPT ![t].pc = IF ok THEN "aw_mod_log" ELSE "raised"]
  /\ UNCHANGED <<use_openai, user_warnings, warnings_file,
                 user_message_times, muted_role_exists, muted,
                 moderation_log, mod_log_channel, now>>

\* send_mod_log has returned: append_log, then the check of the count, the
\* reset, and the call of mute_member up to its first await
apply_warning_check(t, logged, saved) ==
  /\ tasks[t].pc = "aw_mod_log"
  /\ mod_log_channel' = send_mod_log(mod_log_channel, t, "warning", logged)
  /\ moderation_log' = append_log(moderation_log, t, "WARNING")
  /\ LET uid == tasks[t].uid
     IN  IF user_warnings[uid] >= MAX_WARNINGS
         THEN LET uw == [user_warnings EXCEPT ![uid] = 0]
              IN  /\ user_warnings' = uw
                  /\ warnings_file' = save_warnings(uw, saved)
                  /\ tasks' = [tasks EXCEPT ![t].pc = MuteEntry,
                                            ![t].escalated = TRUE]
         ELSE /\ tasks' = [tasks EXCEPT ![t].pc = AfterWarning(tasks[t])]
              /\ UNCHANGED <<user_warnings, warnings_file>>
  /\ UNCHANGED <<use_openai, user_message_times, muted_role_exists, muted,
                 now>>

\* ------------------------------------------------------------ mute_member
\* guild.create_role has returned (set_permissions failures are swallowed)
\* or has raised
mute_member_role_created(t, ok) ==
  /\ tasks[t].pc = "mm_create_role"
  /\ muted_role_exists' = (muted_role_exists \/ ok)
  /\ tasks' = [tasks EXCEPT ![t].pc = IF ok THEN "mm_add_roles" ELSE "raised"]
  /\ UNCHANGED <<use_openai, user_warnings, warnings_file,
                 user_message_times, muted, moderation_log, mod_log_channel,
                 now>>

\* member.add_roles has returned or raised (swallowed); channel.send of the
\* mute notice is awaited
mute_member_role_added(t, ok) ==
  /\ tasks[t].pc = "mm_add_roles"
  /\ muted' = IF ok THEN muted \cup {tasks[t].uid} ELSE muted
  /\ tasks' = [tasks EXCEPT ![t].pc = "mm_send", ![t].role_ok = ok]
  /\ UNCHANGED <<use_openai, user_warnings, warnings_file,
                 user_message_times, muted_role_exists, moderation_log,
                 mod_log_channel, now>>

\* channel.send of the mute notice has returned or raised
mute_member_sent(t, ok) ==
  /\ tasks[t].pc = "mm_send"
  /\ tasks' = [tasks EXCEPT ![t].pc = IF ok THEN "mm_mod_log" ELSE "raised"]
  /\ UNCHANGED <<use_openai, user_warnings, warnings_file,
                 user_message_times, muted_role_exists, muted,
                 moderation_log, mod_log_channel, now>>

\* send_mod_log has returned: append_log, then asyncio.sleep(MUTE_DURATION)
mute_member_sleep(t, logged) ==
  /\ tasks[t].pc = "mm_mod_log"
  /\ mod_log_channel' = send_mod_log(mod_log_channel, t, "muted", logged)
  /\ moderation_log' = append_log(moderation_log, t, "MUTED")
  /\ tasks' = [tasks EXCEPT ![t].pc = "sleep",
                            ![t].wake = now + MUTE_DURATION]
  /\ UNCHANGED <<use_openai, user_warnings, warnings_file,
                 user_message_times, muted_role_exists, muted, now>>

\* the sleep is over and member.remove_roles has returned, or it has raised:
\* the exception is swallowed and mute_member returns
mute_member_wake(t, ok) ==
  /\ tasks[t].pc = "sleep"
  /\ now >= tasks[t].wake
  /\ muted' = IF ok THEN muted \ {tasks[t].uid} ELSE muted
  /\ tasks' = [tasks EXCEPT ![t].pc = IF ok THEN "mm_unmute_log"
                                     ELSE AfterMute(tasks[t])]
  /\ UNCHANGED <<use_openai, user_warnings, warnings_file,
                 user_message_times, muted_role_exists, moderation_log,
                 mod_log_channel, now>>

\* the send_mod_log of the automatic unmute has returned: append_log, and
\* mute_member returns to its caller
mute_member_unmuted(t, logged) ==
  /\ tasks[t].pc = "mm_unmute_log"
  /\ mod_log_channel' = send_mod_log(mod_log_channel, t, "unmuted", logged)
  /\ moderation_log' = append_log(moderation_log, t, "UNMUTED")
  /\ tasks' = [tasks EXCEPT ![t].pc = AfterMute(tasks[t])]
  /\ UNCHANGED <<use_openai, user_warnings, warnings_file,
                 user_message_times, muted_role_exists, muted, now>>

\* --------------------------------------------------------- slash commands
\* slash_warnings reads the count and awaits its response
slash_warnings(t, user) ==
  /\ CanStart(t)
  /\ tasks' = [tasks EXCEPT ![t] =
       [Idle EXCEPT !.kind = "slash_warnings", !.uid = user,
                    !.pc = "respond"]]
  /\ UNCHANGED <<use_openai, user_warnings, warnings_file,
                 user_message_times, muted_role_exists, muted,
                 moderation_log, mod_log_channel, now>>

\* slash_clearwarnings with the admin check after the reset
slash_clearwarnings_unchecked(t, user, admin, saved) ==
  /\ CanStart(t)
  /\ LET uw == [user_warnings EXCEPT ![user] = 0]
     IN  /\ user_warnings' = uw
         /\ warnings_file' = save_warnings(uw, saved)
         /\ tasks' = [tasks EXCEPT ![t] =
              [Idle EXCEPT !.kind = "slash_clearwarnings", !.uid = user,
                           !.pc = IF admin THEN "cw_respond" ELSE "deny"]]
  /\ UNCHANGED <<use_openai, user_message_times, muted_role_exists, muted,
                 moderation_log, mod_log_channel, now>>

\* slash_clearwarnings up to its first await: the admin check, the reset
\* and the save
slash_clearwarnings(t, user, admin, saved) ==
  /\ CanStart(t)
  /\ IF admin
     THEN LET uw == [user_warnings EXCEPT ![user] = 0]
          IN  /\ user_warnings' = uw
              /\ warnings_file' = save_warnings(uw, saved)
              /\ tasks' = [tasks EXCEPT ![t] =
                   [Idle EXCEPT !.kind = "slash_clearwarnings",
                                !.uid = user, !.pc = "cw_respond"]]
     ELSE /\ tasks' = [tasks EXCEPT ![t] =
                 [Idle EXCEPT !.kind = "slash_clearwarnings",
                              !.uid = user, !.pc = "deny"]]
          /\ UNCHANGED <<user_warnings, warnings_file>>
  /\ UNCHANGED <<use_openai, user_message_times, muted_role_exists, muted,
                 moderation_log, mod_log_channel, now>>

\* the response of slash_clearwarnings has been sent, or sending it raised
slash_clearwarnings_responded(t, ok) ==
  /\ tasks[t].pc = "cw_respond"
  /\ tasks' = [tasks EXCEPT ![t].pc = IF ok THEN "cw_mod_log" ELSE "raised"]
  /\ UNCHANGED <<use_openai, user_warnings, warnings_file,
                 user_message_times, muted_role_exists, muted,
                 moderation_log, mod_log_channel, now>>

\* slash_mute up to its first await: the admin check, then mute_member
slash_mute(t, user, admin) ==
  /\ CanStart(t)
  /\ tasks' = [tasks EXCEPT ![t] =
       [Idle EXCEPT !.kind = "slash_mute", !.uid = user,
                    !.pc = IF admin THEN MuteEntry ELSE "deny"]]
  /\ UNCHANGED <<use_openai, user_warnings, warnings_file,
                 user_message_times, muted_role_exists, muted,
                 moderation_log, mod_log_channel, now>>

\* slash_unmute up to its first await: the admin check, then remove_roles
\* when the guild has the role
slash_unmute(t, user, admin) ==
  /\ CanStart(t)
  /\ tasks' = [tasks EXCEPT ![t] =
       [Idle EXCEPT !.kind = "slash_unmute", !.uid = user,
                    !.pc = IF ~admin THEN "deny"
                           ELSE IF muted_role_exists THEN "um_remove_roles"
                           ELSE "um_respond"]]
  /\ UNCHANGED <<use_openai, user_warnings, warnings_file,
                 user_message_times, muted_role_exists, muted,
                 moderation_log, mod_log_channel, now>>

\* user.remove_roles of slash_unmute has returned, or has raised: nothing
\* catches the exception
slash_unmute_removed(t, ok) ==
  /\ tasks[t].pc = "um_remove_roles"
  /\ muted' = IF ok THEN muted \ {tasks[t].uid} ELSE muted
  /\ tasks' = [tasks EXCEPT ![t].pc = IF ok THEN "um_respond" ELSE "raised",
                            ![t].role_ok = ok]
  /\ UNCHANGED <<use_openai, user_warnings, warnings_file,
                 user_message_times, muted_role_exists, moderation_log,
                 mod_log_channel, now>>

slash_unmute_responded(t, ok) ==
  /\ tasks[t].pc = "um_respond"
  /\ tasks' = [tasks EXCEPT ![t].pc = IF ok THEN "um_mod_log" ELSE "raised"]
  /\ UNCHANGED <<use_openai, user_warnings, warnings_file,
                 user_message_times, muted_role_exists, muted,
                 moderation_log, mod_log_channel, now>>

\* the last interaction.response.send_message of a command has returned or
\* raised: the "Admins only" refusal, the answer of slash_warnings, the
\* confirmation of slash_mute
responded(t, ok) ==
  /\ tasks[t].pc \in {"respond", "deny"}
  /\ tasks' = [tasks EXCEPT ![t].pc = IF ok THEN "done" ELSE "raised"]
  /\ UNCHANGED <<use_openai, user_warnings, warnings_file,
                 user_message_times, muted_role_exists, muted,
                 moderation_log, mod_log_channel, now>>

\* The last send_mod_log of a handler has returned: the spam trigger of
\* on_message, the reset of slash_clearwarnings, the unmute of slash_unmute.
LastRecord(pc) ==
  IF pc = "spam_mod_log" THEN "spam"
  ELSE IF pc = "cw_mod_log" THEN "reset"
  ELSE "admin_unmute"

handler_mod_logged(t, logged) ==
  /\ tasks[t].pc \in {"spam_mod_log", "cw_mod_log", "um_mod_log"}
  /\ mod_log_channel' =
       send_mod_log(mod_log_channel, t, LastRecord(tasks[t].pc), logged)
  /\ tasks' = [tasks EXCEPT ![t].pc = "done"]
  /\ UNCHANGED <<use_openai, user_warnings, warnings_file,
                 user_message_times, muted_role_exists, muted,
                 moderation_log, now>>

\* ------------------------------------------------------------- the rest
\* load_warnings(): the file the bot wrote is read back
load_warnings == warnings_file

\* on_ready, which the gateway sends at every (re)connection
on_ready ==
  /\ user_warnings' = load_warnings
  /\ UNCHANGED <<use_openai, warnings_file, user_message_times,
                 muted_role_exists, muted, moderation_log, mod_log_channel,
                 now, tasks>>

\* time passes
Tick ==
  /\ now + TickStep <= MaxTime
  /\ now' = now + TickStep
  /\ UNCHANGED <<use_openai, user_warnings, warnings_file,
                 user_message_times, muted_role_exists, muted,
                 moderation_log, mod_log_channel, tasks>>

Next ==
  \/ \E t \in DOMAIN tasks, u \in Users, bot \in BOOLEAN, text \in Texts,
        r \in RemoteInputs : on_message(t, u, bot, text, r)
  \/ \E t \in DOMAIN tasks, saved \in SaveOutcomes : apply_warning(t, saved)
  \/ \E t \in DOMAIN tasks, ok \in BOOLEAN : apply_warning_sent(t, ok)
  \/ \E t \in DOMAIN tasks, logged \in BOOLEAN, saved \in SaveOutcomes :
       apply_warning_check(t, logged, saved)
  \/ \E t \in DOMAIN tasks, ok \in BOOLEAN : mute_member_role_created(t, ok)
  \/ \E t \in DOMAIN tasks, ok \in BOOLEAN : mute_member_role_added(t, ok)
  \/ \E t \in DOMAIN tasks, ok \in BOOLEAN : mute_member_sent(t, ok)
  \/ \E t \in DOMAIN tasks, logged \in BOOLEAN : mute_member_sleep(t, logged)
  \/ \E t \in DOMAIN tasks, ok \in BOOLEAN : mute_member_wake(t, ok)
  \/ \E t \in DOMAIN tasks, logged \in BOOLEAN :
       mute_member_unmuted(t, logged)
  \/ \E t \in DOMAIN tasks, u \in Users : slash_warnings(t, u)
  \/ \E t \in DOMAIN tasks, u \in Users, admin \in BOOLEAN,
        saved \in SaveOutcomes : slash_clearwarnings(t, u, admin, saved)
  \/ \E t \in DOMAIN tasks, ok \in BOOLEAN :
       slash_clearwarnings_responded(t, ok)
  \/ \E t \in DOMAIN tasks, u \in Users, admin \in BOOLEAN :
       slash_mute(t, u, admin)
  \/ \E t \in DOMAIN tasks, u \in Users, admin \in BOOLEAN :
       slash_unmute(t, u, admin)
  \/ \E t \in DOMAIN tasks, ok \in BOOLEAN : slash_unmute_removed(t, ok)
  \/ \E t \in DOMAIN tasks, ok \in BOOLEAN : slash_unmute_responded(t, ok)
  \/ \E t \in DOMAIN tasks, logged \in BOOLEAN : handler_mod_logged(t, logged)
  \/ \E t \in DOMAIN tasks, ok \in BOOLEAN : responded(t, ok)
  \/ on_ready
  \/ Tick

Spec == Init /\ [][Next]_vars

\* ------------------------------------------------- the run of messages
\* A burst of messages of one member that pass the scorer, one second at a
\* time: the bot right after startup with an empty ledger, and SpamTasks
\* message events to come.
InitSpam ==
  /\ use_openai = FALSE
  /\ warnings_file = [u \in Users |-> 0]
  /\ user_warnings = warnings_file
  /\ user_message_times = [u \in Users |-> <<>>]
  /\ muted_role_exists = FALSE
  /\ muted = {}
  /\ moderation_log = {}
  /\ mod_log_channel = {}
  /\ now = 0
  /\ tasks = [t \in 1..SpamTasks |-> Idle]

\* the member who posts the burst, and what is posted
SpamAuthor == 1
SpamTexts == { <<"o","k">> }

\* one second passes
Second ==
  /\ now < SpamMaxTime
  /\ now' = now + 1
  /\ UNCHANGED <<use_openai, user_warnings, warnings_file,
                 user_message_times, muted_role_exists, muted,
                 moderation_log, mod_log_channel, tasks>>

\* The handlers a burst of passing messages can reach: with an empty ledger
\* and SpamTasks messages the count stays below MAX_WARNINGS.
NextSpam ==
  \/ \E t \in DOMAIN tasks, text \in SpamTexts, r \in RemoteInputs :
       on_message(t, SpamAuthor, FALSE, text, r)
  \/ \E t \in DOMAIN tasks, saved \in SaveOutcomes : apply_warning(t, saved)
  \/ \E t \in DOMAIN tasks, ok \in BOOLEAN : apply_warning_sent(t, ok)
  \/ \E t \in DOMAIN tasks, logged \in BOOLEAN, saved \in SaveOutcomes :
       apply_warning_check(t, logged, saved)
  \/ \E t \in DOMAIN tasks, logged \in BOOLEAN : handler_mod_logged(t, logged)
  \/ Second

SpecSpam == InitSpam /\ [][NextSpam]_vars

\* ------------------------------------------------ the decision pipeline
\* Every content of up to MaxTextLen characters over a letter that
\* shape-matches, a capital letter, a punctuation mark and the underscore.
Alphabet == {"k", "A", "!", "_"}
ShortTexts == UNION {[1..n -> Alphabet] : n \in 0..MaxTextLen}

\* Contents that match a structural pattern as they are (in lower case, in
\* upper case, with a punctuation burst behind), contents that match only
\* once normalized (an accented letter, or an underscore between the
\* letters: alone, with a punctuation burst, in upper case), and a content
\* with the caps and the punctuation signal.
LongTexts ==
  { <<"f","@","9","0","t">>,
    <<"N","!","9","3","R">>,
    <<"n","!","9","3","r","!","!","!","!">>,
    <<"n","1","9","é","r">>,
    <<"n","_","1","q","3","r","!","!","!","!">>,
    <<"N","_","1","Q","3","R">>,
    <<"A","A","A","A","A","A","A","A","!","!","!","!">> }

PipelineTexts == Texts \cup ShortTexts \cup LongTexts

\* a passing message of SpamAuthor that on_message has handled
Passed ==
  [Idle EXCEPT !.kind = "on_message", !.uid = SpamAuthor, !.pc = "done",
               !.reason = "pass", !.text = <<"o","k">>,
               !.remote = IF use_openai
                          THEN [ok |-> TRUE, total |-> 1, flagged |-> 0]
                          ELSE NoCall,
               !.score = ai_moderation_score(use_openai, <<"o","k">>,
                           [ok |-> TRUE, total |-> 1, flagged |-> 0])]

\* The bot with or without OPENAI_API_KEY, after SPAM_LIMIT - 1 passing
\* messages of SpamAuthor in the current second, and one message to come.
InitPipeline ==
  /\ use_openai \in BOOLEAN
  /\ warnings_file = [u \in Users |-> 0]
  /\ user_warnings = warnings_file
  /\ user_message_times =
       [u \in Users |-> IF u = SpamAuthor
                        THEN [i \in 1..(SPAM_LIMIT - 1) |-> 0] ELSE <<>>]
  /\ muted_role_exists = FALSE
  /\ muted = {}
  /\ moderation_log = {}
  /\ mod_log_channel = {}
  /\ now = 0
  /\ tasks = [t \in 1..SPAM_LIMIT |-> IF t < SPAM_LIMIT THEN Passed ELSE Idle]

\* The handlers one message can reach when the ledger is empty.
NextPipeline ==
  \/ \E t \in {x \in DOMAIN tasks : CanStart(x)} :
       \E u \in Users, bot \in BOOLEAN, text \in PipelineTexts,
          r \in RemoteInputs :
         on_message(t, u, bot, text, r)
  \/ \E t \in DOMAIN tasks, saved \in SaveOutcomes : apply_warning(t, saved)
  \/ \E t \in DOMAIN tasks, ok \in BOOLEAN : apply_warning_sent(t, ok)
  \/ \E t \in DOMAIN tasks, logged \in BOOLEAN, saved \in SaveOutcomes :
       apply_warning_check(t, logged, saved)
  \/ \E t \in DOMAIN tasks, logged \in BOOLEAN : handler_mod_logged(t, logged)

SpecPipeline == InitPipeline /\ [][NextPipeline]_vars

\* ------------------------------------------------------------ the ledger
\* MAX_WARNINGS messages of one member that are warned about, handled one
\* after the other, with a warnings.json whose writes can fail and a
\* gateway that can reconnect.
InitLedger ==
  /\ use_openai = FALSE
  /\ warnings_file = [u \in Users |-> 0]
  /\ user_warnings = warnings_file
  /\ user_message_times = [u \in Users |-> <<>>]
  /\ muted_role_exists = FALSE
  /\ muted = {}
  /\ moderation_log = {}
  /\ mod_log_channel = {}
  /\ now = 0
  /\ tasks = [t \in 1..MAX_WARNINGS |-> Idle]

LedgerTexts == { <<"k","k">> }

\* no handler is between its dispatch and its end or its asyncio.sleep
NoHandlerRunning ==
  \A t \in DOMAIN tasks : tasks[t].pc \in {"idle", "done", "raised", "sleep"}

NextLedger ==
  \/ /\ NoHandlerRunning
     /\ \E t \in DOMAIN tasks, text \in LedgerTexts, r \in RemoteInputs :
          on_message(t, SpamAuthor, FALSE, text, r)
  \/ \E t \in DOMAIN tasks, saved \in BOOLEAN : apply_warning(t, saved)
  \/ \E t \in DOMAIN tasks, ok \in BOOLEAN : apply_warning_sent(t, ok)
  \/ \E t \in DOMAIN tasks, logged \in BOOLEAN, saved \in BOOLEAN :
       apply_warning_check(t, logged, saved)
  \/ \E t \in DOMAIN tasks, ok \in BOOLEAN : mute_member_role_created(t, ok)
  \/ \E t \in DOMAIN tasks, ok \in BOOLEAN : mute_member_role_added(t, ok)
  \/ \E t \in DOMAIN tasks, ok \in BOOLEAN : mute_member_sent(t, ok)
  \/ \E t \in DOMAIN tasks, logged \in BOOLEAN : mute_member_sleep(t, logged)
  \/ \E t \in DOMAIN tasks, ok \in BOOLEAN : mute_member_wake(t, ok)
  \/ \E t \in DOMAIN tasks, logged \in BOOLEAN :
       mute_member_unmuted(t, logged)
  \/ \E t \in DOMAIN tasks, logged \in BOOLEAN : handler_mod_logged(t, logged)
  \/ on_ready
  \/ Tick

SpecLedger == InitLedger /\ [][NextLedger]_vars

\* ----------------------------------------------------- the admin commands
\* The admin commands alone, by administrators and by other members: the
\* bot after startup, with a member one warning away from a mute, in a
\* guild that has no "Muted" role yet; no message is posted.
InitAdmin ==
  /\ use_openai = FALSE
  /\ warnings_file = [u \in Users |-> IF u = SpamAuthor THEN MAX_WARNINGS - 1
                                      ELSE 0]
  /\ user_warnings = warnings_file
  /\ user_message_times = [u \in Users |-> <<>>]
  /\ muted_role_exists = FALSE
  /\ muted = {}
  /\ moderation_log = {}
  /\ mod_log_channel = {}
  /\ now = 0
  /\ tasks = [t \in 1..MaxTasks |-> Idle]

NextAdmin ==
  \/ \E t \in DOMAIN tasks, u \in Users, admin \in BOOLEAN,
        saved \in SaveOutcomes : slash_clearwarnings(t, u, admin, saved)
  \/ \E t \in DOMAIN tasks, ok \in BOOLEAN :
       slash_clearwarnings_responded(t, ok)
  \/ \E t \in DOMAIN tasks, u \in Users, admin \in BOOLEAN :
       slash_mute(t, u, admin)
  \/ \E t \in DOMAIN tasks, u \in Users, admin \in BOOLEAN :
       slash_unmute(t, u, admin)
  \/ \E t \in DOMAIN tasks, ok \in BOOLEAN : slash_unmute_removed(t, ok)
  \/ \E t \in DOMAIN tasks, ok \in BOOLEAN : slash_unmute_responded(t, ok)
  \/ \E t \in DOMAIN tasks, ok \in BOOLEAN : mute_member_role_created(t, ok)
  \/ \E t \in DOMAIN tasks, ok \in BOOLEAN : mute_member_role_added(t, ok)
  \/ \E t \in DOMAIN tasks, ok \in BOOLEAN : mute_member_sent(t, ok)
  \/ \E t \in DOMAIN tasks, logged \in BOOLEAN : mute_member_sleep(t, logged)
  \/ \E t \in DOMAIN tasks, ok \in BOOLEAN : mute_member_wake(t, ok)
  \/ \E t \in DOMAIN tasks, logged \in BOOLEAN :
       mute_member_unmuted(t, logged)
  \/ \E t \in DOMAIN tasks, logged \in BOOLEAN : handler_mod_logged(t, logged)
  \/ \E t \in DOMAIN tasks, ok \in BOOLEAN : responded(t, ok)
  \/ on_ready
  \/ Tick

SpecAdmin == InitAdmin /\ [][NextAdmin]_vars

\* ------------------------------------------------------------ the claims
WarningReasons == {"spam", "removed", "flagged", "pattern"}

\* task t is suspended in apply_warning, after its increment and before its
\* check of the count
InApplyWarning(t) == tasks[t].pc \in {"aw_send", "aw_mod_log"}

\* task t is a message handler that has incremented the count of its author
HasWarned(t) ==
  /\ tasks[t].kind = "on_message"
  /\ tasks[t].reason \in WarningReasons
  /\ tasks[t].pc # "delete"

\* task t has ended, normally or by an exception
Finished(t) == tasks[t].pc \in {"done", "raised"}

\* the timer of task t is pending
Sleeping(t) == tasks[t].pc = "sleep"

\* C1: in every reachable state every stored warning count is between 0 and
\* MAX_WARNINGS.
C1_CountWithinMax ==
  \A u \in Users : 0 <= user_warnings[u] /\ user_warnings[u] <= MAX_WARNINGS

\* C2: the increment, the reset and the escalation decision are one step: in
\* no state in which other handlers can run (the warning handler is
\* suspended between its increment and its check) is the stored count at
\* MAX_WARNINGS or more.
C2_AtomicEscalation ==
  \A t \in DOMAIN tasks :
    InApplyWarning(t) => user_warnings[tasks[t].uid] < MAX_WARNINGS

\* the warnings of user u that are accounted for: the stored count and
\* MAX_WARNINGS for each escalation, less the warnings given
Balance(u) ==
  user_warnings[u]
  + MAX_WARNINGS * Cardinality({t \in DOMAIN tasks :
        tasks[t].uid = u /\ tasks[t].kind = "on_message" /\ tasks[t].escalated})
  - Cardinality({t \in DOMAIN tasks : tasks[t].uid = u /\ HasWarned(t)})

\* C3: no warning is lost: as long as no admin reset takes place, every step
\* keeps the balance of every user, as N calls of addWarning one after another
\* do (N div MAX_WARNINGS escalations, N mod MAX_WARNINGS stored).
C3_NoLostWarning ==
  [][(\A t \in DOMAIN tasks : tasks'[t].kind # "slash_clearwarnings")
       => \A u \in Users : Balance(u)' = Balance(u)]_vars

\* C4: at most one expiry timer is pending per user.
C4_OneTimerPerUser ==
  \A u \in Users :
    Cardinality({t \in DOMAIN tasks : Sleeping(t) /\ tasks[t].uid = u}) <= 1

\* an admin unmute of the user of task t, dispatched after t, has removed the
\* role that t had granted, and the user is unmuted
RevokedAfter(t) ==
  /\ tasks[t].role_ok
  /\ tasks[t].uid \notin muted
  /\ \E r \in DOMAIN tasks :
       /\ r > t
       /\ tasks[r].kind = "slash_unmute"
       /\ tasks[r].uid = tasks[t].uid
       /\ tasks[r].role_ok

\* C5: after apply and then revoke before the duration has elapsed, the
\* expiry of that mute never takes effect: no timer removes the role (and
\* goes on to the "unmuted after mute duration" record) once a later revoke
\* of its user has gone through.
C5_NoExpiryAfterRevoke ==
  [][\A t \in DOMAIN tasks :
       (Sleeping(t) /\ RevokedAfter(t)) => tasks'[t].pc # "mm_unmute_log"]_vars

\* C6: when apply is called twice before the first mute expires, one expiry
\* fires, at the second apply plus the duration: no timer removes the role
\* while a timer of a later apply for the same user is pending.
C6_ExpiryOfLastApply ==
  [][\A t \in DOMAIN tasks :
       (Sleeping(t) /\ tasks'[t].pc = "mm_unmute_log")
         => ~\E t2 \in DOMAIN tasks :
               /\ t2 # t
               /\ Sleeping(t2)
               /\ tasks[t2].uid = tasks[t].uid
               /\ tasks[t2].wake > tasks[t].wake]_vars

\* the sleep of task t is over and mute_member has returned
TimerDone(t) ==
  /\ tasks[t].wake > 0
  /\ tasks[t].pc \notin {"sleep", "mm_unmute_log"}

\* no other task is about the user of task t
OnlyTaskOfUser(t) ==
  \A t2 \in DOMAIN tasks : t2 # t => tasks[t2].uid # tasks[t].uid

\* C7: every mute ends: once the timer of a mute that granted the role is
\* over, the unmute audit record is written and, with no other apply or
\* revoke for the user, the user is unmuted, also when the role removal can
\* fail.
C7_MuteEnds ==
  \A t \in DOMAIN tasks :
    (TimerDone(t) /\ tasks[t].role_ok) =>
      /\ <<t, "UNMUTED">> \in moderation_log
      /\ OnlyTaskOfUser(t) => tasks[t].uid \notin muted

\* C8: a warning that brings the count to MAX_WARNINGS is followed by the
\* mute in the handling of the same message: no handler leaves apply_warning
\* without calling mute_member while the stored count of its author is at
\* MAX_WARNINGS or more, also when the warning notification fails.
C8_EscalationMutes ==
  [][\A t \in DOMAIN tasks :
       (/\ InApplyWarning(t)
        /\ user_warnings[tasks[t].uid] >= MAX_WARNINGS
        /\ ~InApplyWarning(t)')
         => tasks'[t].escalated]_vars

\* task t has a record of one of the two kinds in one of the audit sinks
Audited(t, file_kind, channel_kind) ==
  \/ <<t, file_kind>> \in moderation_log
  \/ <<t, channel_kind>> \in mod_log_channel

\* C9: every moderation action that changed state has its audit record once
\* its handler has ended, also when a platform call failed: the warning of
\* a message handler, the mute (the role granted by mute_member), the admin
\* unmute (the role removed by slash_unmute).  The record of an automatic
\* unmute is written in the step that follows the role removal.
C9_ActionsAudited ==
  \A t \in DOMAIN tasks :
    Finished(t) =>
      /\ HasWarned(t) => Audited(t, "WARNING", "warning")
      /\ (tasks[t].kind \in {"on_message", "slash_mute"} /\ tasks[t].wake = 0
            /\ tasks[t].role_ok)
           => Audited(t, "MUTED", "muted")
      /\ (tasks[t].kind = "slash_unmute" /\ tasks[t].role_ok)
           => Audited(t, "admin_unmute", "admin_unmute")

\* C10: on every mute transition a failure of the role call is caught and
\* the bookkeeping goes on: after add_roles the mute notice and the timer
\* follow, after the remove_roles of the timer the audit record follows, and
\* the remove_roles of the admin unmute does not end the command with an
\* exception.
C10_RoleFailureCaught ==
  [][\A t \in DOMAIN tasks :
       /\ tasks[t].pc = "mm_add_roles" => tasks'[t].pc \in {"mm_add_roles", "mm_send"}
       /\ Sleeping(t) => tasks'[t].pc \in {"sleep", "mm_unmute_log"}
       /\ tasks[t].pc = "um_remove_roles" => tasks'[t].pc # "raised"]_vars

\* ------------------------------------------------------- the spam window
\* the step in which task t starts on_message for a message of a member
\* (not of a bot): the call of the spam detector
CallStep(t) ==
  /\ tasks[t].pc = "idle"
  /\ tasks'[t].kind = "on_message"
  /\ tasks'[t].reason # "bot"

\* the timestamps now - k, ..., now - j, one per second
Seconds(k, j) == [i \in 1..(k - j + 1) |-> now - k + i - 1]

\* C13 as stated: with SPAM_WINDOW = 7 and SPAM_LIMIT = 5, the call at t + 4
\* after calls at t, t+1, t+2, t+3 declares spam with 5 timestamps in the
\* window, and the call at t + 8 after calls at t, ..., t+4 leaves 5
\* timestamps in the window.
C13_SixthCallCountsFive ==
  [][\A t \in DOMAIN tasks :
       CallStep(t) =>
         LET u == tasks'[t].uid
         IN  /\ user_message_times[u] = Seconds(4, 1)
                  => /\ tasks'[t].reason = "spam"
                     /\ Len(user_message_times'[u]) = 5
             /\ user_message_times[u] = Seconds(8, 4)
                  => Len(user_message_times'[u]) = 5]_vars

\* C13 amended: the call at t + 4 declares spam with 5 timestamps in the
\* window; the call at t + 8 drops both t and t + 1 (t + 1 is exactly
\* SPAM_WINDOW old), leaves 4 timestamps in the window and declares no spam.
C13_SixthCallCountsFour ==
  [][\A t \in DOMAIN tasks :
       CallStep(t) =>
         LET u == tasks'[t].uid
         IN  /\ user_message_times[u] = Seconds(4, 1)
                  => /\ tasks'[t].reason = "spam"
                     /\ Len(user_message_times'[u]) = 5
             /\ user_message_times[u] = Seconds(8, 4)
                  => /\ tasks'[t].reason # "spam"
                     /\ user_message_times'[u] = <<now - 6, now - 5, now - 4, now>>]_vars

\* six messages of the member have been handled, the fifth was declared
\* spam, the sixth came at time 8 and was not, and the window holds the
\* timestamps 2, 3, 4 and 8
C13_Witness ==
  /\ \A t \in 1..6 : tasks[t].kind = "on_message" /\ tasks[t].uid = SpamAuthor
  /\ \A t \in 1..4 : tasks[t].reason = "pass"
  /\ tasks[5].reason = "spam"
  /\ tasks[6].reason = "pass"
  /\ now = 8
  /\ user_message_times[SpamAuthor] = <<2, 3, 4, 8>>

\* the number of occurrences of v in the sequence s
Count(s, v) == Cardinality({i \in DOMAIN s : s[i] = v})

\* C17: on each call of the spam detector for a user at time now, the
\* timestamps that are SPAM_WINDOW or more old are dropped (one that is
\* exactly SPAM_WINDOW old too) and the others kept, now is appended, and
\* spam is declared exactly when the resulting count is SPAM_LIMIT or more;
\* this holds of every call, also of those that declare spam.
C17_WindowUpdate ==
  [][\A t \in DOMAIN tasks :
       CallStep(t) =>
         LET u == tasks'[t].uid
             old == user_message_times[u]
             new == user_message_times'[u]
         IN  /\ Len(new) >= 1
             /\ new[Len(new)] = now
             /\ \A v \in 0..SpamMaxTime :
                  Count(new, v) =
                    (IF now - v >= SPAM_WINDOW THEN 0 ELSE Count(old, v))
                    + (IF v = now THEN 1 ELSE 0)
             /\ (tasks'[t].reason = "spam") <=> (Len(new) >= SPAM_LIMIT)]_vars

\* five messages at time 0, the fifth declared spam, and a sixth message at
\* time SPAM_WINDOW: the five timestamps, exactly SPAM_WINDOW old, are gone
C17_Witness ==
  /\ \A t \in 1..6 : tasks[t].kind = "on_message" /\ tasks[t].uid = SpamAuthor
  /\ tasks[5].reason = "spam"
  /\ tasks[6].reason = "pass"
  /\ now = SPAM_WINDOW
  /\ user_message_times[SpamAuthor] = <<SPAM_WINDOW>>

\* ------------------------------------------------- the decision pipeline
\* task t handles a message of a member (not of a bot)
MemberMessage(t) ==
  /\ tasks[t].kind = "on_message"
  /\ tasks[t].reason # "bot"

\* the score of task t is the one of the heuristic scorer
HeuristicScored(t) ==
  /\ MemberMessage(t)
  /\ tasks[t].reason # "spam"
  /\ ~use_openai \/ ~tasks[t].remote.ok

\* a structural pattern is found in the sequence s
PatternIn(s) == \E k \in DOMAIN SLUR_PATTERNS : re_search(SLUR_PATTERNS[k], s)

\* the text matches a structural pattern, raw or normalized
MatchesPattern(text) == PatternIn(text) \/ PatternIn(normalize_text(text))

\* the decision the pipeline is to take for a scored message (4.7, 4 to 7)
ExpectedDecision(score, text) ==
  IF score >= 70 THEN "removed"
  ELSE IF score >= 40 THEN "flagged"
  ELSE IF MatchesPattern(text) THEN "pattern"
  ELSE "pass"

\* the number of messages of member u that have been warned about
Warned(u) == Cardinality({t \in DOMAIN tasks : tasks[t].uid = u /\ HasWarned(t)})

\* C11: when the remote scorer is enabled and its call fails, the error
\* does not leave the scorer: the score of the message is the heuristic score
\* of its text, and the handler goes on to the decision that score gives
\* (removed, flagged, pattern match, pass).
C11_RemoteFailureFallsBack ==
  \A t \in DOMAIN tasks :
    (MemberMessage(t) /\ tasks[t].reason # "spam" /\ use_openai
       /\ ~tasks[t].remote.ok)
      => /\ tasks[t].score = heuristic_toxic_score(tasks[t].text)
         /\ tasks[t].reason \in {"removed", "flagged", "pattern", "pass"}
         /\ tasks[t].reason = ExpectedDecision(tasks[t].score, tasks[t].text)
         /\ tasks[t].reason = "pass" => tasks[t].pc = "done"
         /\ tasks[t].reason # "pass" => tasks[t].pc # "idle"

\* the remote call of a message failed, the heuristic score flagged the
\* message, and its handler has ended
C11_Witness ==
  \E t \in DOMAIN tasks :
    /\ use_openai
    /\ MemberMessage(t)
    /\ ~tasks[t].remote.ok
    /\ tasks[t].reason = "flagged"
    /\ tasks[t].score = 45
    /\ tasks[t].pc = "done"

\* no message of the author of task t has been handled since
LatestOfAuthor(t) ==
  \A t2 \in DOMAIN tasks :
    (t2 > t /\ MemberMessage(t2)) => tasks[t2].uid # tasks[t].uid

\* C12: every message of a member gets one decision, in this order: spam
\* (SPAM_LIMIT or more timestamps in the window) => delete and warn without
\* scoring; else score >= 0.70 => removed; else score >= 0.40 => flagged;
\* else a structural pattern in the raw or the normalized text => pattern
\* match; else pass.  A message is warned about at most once, a passing
\* message not at all, and the pattern decision is taken only below 0.40.
C12_DecisionOrder ==
  /\ \A t \in DOMAIN tasks :
       MemberMessage(t) =>
         /\ tasks[t].reason \in WarningReasons \cup {"pass"}
         /\ LatestOfAuthor(t)
              => (tasks[t].reason = "spam"
                    <=> Len(user_message_times[tasks[t].uid]) >= SPAM_LIMIT)
         /\ tasks[t].reason = "spam"
              => tasks[t].score = NoScore /\ tasks[t].remote = NoCall
         /\ tasks[t].reason # "spam"
              => /\ tasks[t].score # NoScore
                 /\ tasks[t].reason =
                      ExpectedDecision(tasks[t].score, tasks[t].text)
         /\ tasks[t].reason = "pattern" => tasks[t].score < 40
         /\ tasks[t].reason = "pass" => tasks[t].pc = "done"
         /\ tasks[t].reason # "pass"
              => tasks[t].pc \in {"delete", "aw_send", "aw_mod_log",
                                  "spam_mod_log", "done", "raised"}
  /\ \A u \in Users : user_warnings[u] = Warned(u)

\* the message that fills the spam window was not scored, was warned about
\* once, and its handler has ended
C12_Witness ==
  \E t \in DOMAIN tasks :
    /\ MemberMessage(t)
    /\ tasks[t].reason = "spam"
    /\ MatchesPattern(tasks[t].text)
    /\ tasks[t].score = NoScore
    /\ tasks[t].pc = "done"
    /\ user_warnings[tasks[t].uid] = 1

\* the score 4.2 gives: the first of pattern (raw or normalized text),
\* punctuation burst, caps ratio, shape ratio
SpecScore(text) ==
  IF MatchesPattern(text) THEN 95
  ELSE IF PunctuationBurst(text) THEN 45
  ELSE IF 2 * caps_count(text) > Len(text) + 1 THEN 40
  ELSE IF FracGT(shape_match(text), <<6, 10>>) THEN 80
  ELSE 0

\* the same with the pattern looked for in the raw text alone
RawScore(text) ==
  IF PatternIn(text) THEN 95
  ELSE IF PunctuationBurst(text) THEN 45
  ELSE IF 2 * caps_count(text) > Len(text) + 1 THEN 40
  ELSE IF FracGT(shape_match(text), <<6, 10>>) THEN 80
  ELSE 0

CapsAndPunctuation == <<"A","A","A","A","A","A","A","A","!","!","!","!">>

\* C18 as stated: the heuristic score is that of the first matching branch
\* of: pattern in the raw or the normalized text => 0.95, punctuation burst
\* => 0.45, caps ratio > 0.5 => 0.4, shape ratio > 0.6 => 0.8, else 0.0; so
\* it lies in [0, 1], a text that matches a pattern (raw or normalized)
\* scores 0.95, and "AAAAAAAA!!!!" scores 0.45 and is flagged.
C18_ScoreOrderRawOrNormalized ==
  \A t \in DOMAIN tasks :
    HeuristicScored(t) =>
      /\ tasks[t].score = SpecScore(tasks[t].text)
      /\ 0 <= tasks[t].score /\ tasks[t].score <= 100
      /\ MatchesPattern(tasks[t].text) => tasks[t].score = 95
      /\ tasks[t].text = CapsAndPunctuation
           => tasks[t].score = 45 /\ tasks[t].reason = "flagged"

\* C18 amended: the same order with the pattern looked for in the raw text
\* alone; a text whose raw form matches a pattern scores 0.95, and a text
\* that matches only once normalized gets the score of the later branches.
C18_ScoreOrderRaw ==
  \A t \in DOMAIN tasks :
    HeuristicScored(t) =>
      /\ tasks[t].score = RawScore(tasks[t].text)
      /\ 0 <= tasks[t].score /\ tasks[t].score <= 100
      /\ PatternIn(tasks[t].text) => tasks[t].score = 95
      /\ tasks[t].text = CapsAndPunctuation
           => tasks[t].score = 45 /\ tasks[t].reason = "flagged"

\* "AAAAAAAA!!!!" was scored by the heuristic scorer, flagged, warned about,
\* and its handler has ended
C18_Witness ==
  \E t \in DOMAIN tasks :
    /\ HeuristicScored(t)
    /\ tasks[t].text = CapsAndPunctuation
    /\ tasks[t].score = 45
    /\ tasks[t].reason = "flagged"
    /\ tasks[t].pc = "done"
    /\ user_warnings[tasks[t].uid] = 1

\* C20: every message of a member whose raw or normalized text matches a
\* structural pattern takes a deleting decision, whatever the scorer returns
\* and whether or not it is spam: its deletion is requested, its author gets
\* exactly one warning for it, and it never passes.
C20_PatternNeverPasses ==
  \A t \in DOMAIN tasks :
    (MemberMessage(t) /\ MatchesPattern(tasks[t].text))
      => /\ tasks[t].reason \in WarningReasons
         /\ tasks[t].pc \in {"delete", "aw_send", "aw_mod_log",
                             "spam_mod_log", "done", "raised"}
         /\ user_warnings[tasks[t].uid] = IF tasks[t].pc = "delete" THEN 0 ELSE 1

\* a message that matches a pattern only once normalized got a remote score
\* below 0.40, was decided by the pattern scan, and was warned about once
C20_Witness ==
  \E t \in DOMAIN tasks :
    /\ use_openai
    /\ MemberMessage(t)
    /\ tasks[t].remote.ok
    /\ tasks[t].score < 40
    /\ ~PatternIn(tasks[t].text)
    /\ PatternIn(normalize_text(tasks[t].text))
    /\ tasks[t].reason = "pattern"
    /\ tasks[t].pc = "done"
    /\ user_warnings[tasks[t].uid] = 1

\* ------------------------------------------------------------ the ledger
\* C14: apply_warning called MAX_WARNINGS times one after the other for one
\* user, from count 0 and with nothing else touching the ledger (the stored
\* count is the number of calls so far), leaves the counts 1, 2, ...,
\* MAX_WARNINGS - 1, and the MAX_WARNINGS-th call escalates and leaves 0.
C14_SequentialWarnings ==
  [][\A t \in DOMAIN tasks :
       (/\ InApplyWarning(t)
        /\ ~InApplyWarning(t)'
        /\ user_warnings[tasks[t].uid] = Warned(tasks[t].uid))
         => LET u == tasks[t].uid
                n == Warned(u)
            IN  /\ n < MAX_WARNINGS
                     => user_warnings'[u] = n /\ ~tasks'[t].escalated
                /\ n = MAX_WARNINGS
                     => user_warnings'[u] = 0 /\ tasks'[t].escalated]_vars

\* C15: a failed write of the ledger raises nothing in the handler, and the
\* counts in memory stay the authority: a step that is not a step of a
\* handler (a reconnection that fires on_ready, the clock) leaves them as
\* they are.
C15_MemoryAuthoritative ==
  [][/\ (user_warnings' # user_warnings /\ warnings_file' # user_warnings')
         => \A t \in DOMAIN tasks :
              tasks'[t].pc = "raised" => tasks[t].pc = "raised"
     /\ tasks' = tasks => user_warnings' = user_warnings]_vars

\* ----------------------------------------------------- the admin commands
\* the step of task t leaves alone the ledger, the mute states, the audit
\* sinks and every other task (the pending timers among them)
OnlyTaskChanges(t) ==
  /\ user_warnings' = user_warnings
  /\ warnings_file' = warnings_file
  /\ muted' = muted
  /\ muted_role_exists' = muted_role_exists
  /\ moderation_log' = moderation_log
  /\ mod_log_channel' = mod_log_channel
  /\ \A t2 \in DOMAIN tasks : t2 # t => tasks'[t2] = tasks[t2]

\* C16: an admin command (clearwarnings, mute, unmute) of a member who is
\* no administrator changes no state: from its dispatch to its end the
\* warning counts, the mute states and the pending timers stay as they are,
\* nothing is sent to the mod-logs channel, and the one thing it awaits is
\* the response to the invoking user.
C16_NonAdminChangesNothing ==
  [][\A t \in DOMAIN tasks :
       /\ (tasks[t].pc = "idle" /\ tasks'[t].pc = "deny")
            => /\ tasks'[t].kind \in {"slash_clearwarnings", "slash_mute",
                                      "slash_unmute"}
               /\ OnlyTaskChanges(t)
       /\ (tasks[t].pc = "deny" /\ tasks'[t] # tasks[t])
            => /\ tasks'[t].pc \in {"done", "raised"}
               /\ OnlyTaskChanges(t)]_vars

\* a member who is no administrator has run clearwarnings on a muted member
\* with MAX_WARNINGS - 1 warnings whose timer is pending: the command has
\* ended, the count, the mute and the timer are still there
C16_Witness ==
  \E t, m \in DOMAIN tasks :
    /\ tasks[t].kind = "slash_clearwarnings"
    /\ tasks[t].pc = "done"
    /\ user_warnings[tasks[t].uid] = MAX_WARNINGS - 1
    /\ tasks[t].uid \in muted
    /\ m < t
    /\ Sleeping(m)
    /\ tasks[m].uid = tasks[t].uid
    /\ mod_log_channel \subseteq {<<m, "muted">>}

\* C19: the admin unmute of a user who is not muted is a no-op and not an
\* error: the mute states, the warning counts and the pending timers are
\* unchanged by the role removal, and the command goes on to its response.
C19_UnmuteOfUnmutedIsNoop ==
  [][\A t \in DOMAIN tasks :
       (/\ tasks[t].pc = "um_remove_roles"
        /\ tasks[t].uid \notin muted
        /\ tasks'[t] # tasks[t])
         => /\ muted' = muted
            /\ user_warnings' = user_warnings
            /\ \A t2 \in DOMAIN tasks : t2 # t => tasks'[t2] = tasks[t2]
            /\ tasks'[t].pc = "um_respond"]_vars

====
